---- MODULE Spec2Model ----
(***************************************************************************)
(* Browser client src/web/app.js as an event-loop state machine.           *)
(*                                                                         *)
(* State: the text of the output elements, the fetches in flight (each     *)
(* with the continuation that awaits it) and the setInterval timers.       *)
(* One action per event-loop task: a user event handler run up to its      *)
(* first await, a timer tick, or the continuation of one settled fetch.    *)
(* The server is external: every fetch in flight may settle at any time,   *)
(* in any order, fulfilled with some document or rejected with a message.  *)
(***************************************************************************)
EXTENDS Naturals, Sequences, FiniteSets, Bags

VARIABLES
    statusEl,          \* #status textContent
    metricsEl,         \* #metrics textContent
    taskListEl,        \* #task-list innerHTML
    vizPacketEl,       \* #viz-packet textContent
    taskJsonEl,        \* #task-json value
    llmResponseEl,     \* #llm-response textContent
    researchResultEl,  \* #research-result textContent
    eqgftResponseEl,   \* #eqgft-response content
    physicsEl,         \* #electron-mass, #fine-structure, #quaternion-coherence, #topological-winding
    pending,           \* bag of fetches in flight, each with its awaiting call site
    timers,            \* the setInterval timers created so far, in creation order
    userActions        \* number of clicks so far

vars == <<statusEl, metricsEl, taskListEl, vizPacketEl, taskJsonEl, llmResponseEl,
          researchResultEl, eqgftResponseEl, physicsEl, pending, timers, userActions>>

-----------------------------------------------------------------------------
(* Bounds of the exploration *)

MaxUserActions == 1     \* clicks in one run of Spec
MaxLlmClicks == 2       \* clicks on #eqgft-send-llm in one run of PollSpec
MaxTicks == 2           \* timer ticks in one run

(* What the server and the user may supply *)

Data == {"d1"}                             \* JSON documents of a fulfilled response
ErrorMessages == {"Bad Gateway"}           \* err.message of a rejected api() promise
TaskStatuses == {"Running", "Completed"}   \* status field of GET /api/tasks/{id}
TaskTexts == {"{\"op\":1}", "{oops"}       \* what the user types into #task-json
ContextTexts == {"", "  ", "{\"k\":2}", "nope"}   \* #campaign-context
VizTypes == {"custom-python-script", "line-plot", "3d-vector-field", "heatmap"}
QueryTexts == {"q"}                        \* #llm-query, #eqgft-llm-query
\* #campaign-goal, #campaign-target, #campaign-target-value, #campaign-steps
ResearchForms ==
    {[goal |-> "", target |-> "", value |-> "", steps |-> ""],
     [goal |-> " reach 9 ", target |-> "mass", value |-> "0.5", steps |-> "0.5"]}
\* #eqgft-n-events, #eqgft-kappa, #eqgft-systematic-error, #eqgft-python-script
EqgftForms ==
    {[nEvents |-> "100", kappa |-> "0.5", systematicError |-> "", pythonScript |-> "print(1)"]}

-----------------------------------------------------------------------------
(* Pure helpers *)

\* JSON.stringify(value, null, 2) of a response document: a text that names it.
Pretty(d) == "pretty(" \o d \o ")"

\* String.prototype.trim on the sample texts.
Trim(s) == CASE s = "  " -> "" [] s = " reach 9 " -> "reach 9" [] OTHER -> s

\* Whether JSON.parse accepts the text (it throws a SyntaxError otherwise).
JsonParses(s) == s \in {"{\"op\":1}", "{\"k\":2}"} \cup {Pretty(d) : d \in Data}

\* The value JSON.parse returns for a text it accepts.
JsonParse(s) ==
    CASE s = "{\"op\":1}" -> "op1"
      [] s = "{\"k\":2}" -> "k2"
      [] OTHER -> CHOOSE d \in Data : Pretty(d) = s

\* The message of the SyntaxError JSON.parse throws.
SyntaxErrorMessage == "Unexpected token"

\* parseFloat / parseInt on the sample texts; JSON.stringify writes NaN as null.
ParseFloat(s) == IF s \in {"100", "0.5", "0", "5"} THEN s ELSE "NaN"
ParseInt(s) == CASE s \in {"100", "0", "5"} -> s [] s = "0.5" -> "0" [] OTHER -> "NaN"
JsonNumber(n) == IF n = "NaN" THEN "null" ELSE n

NoBody == [kind |-> "none"]

\* api(path, options): the fetch it starts, tagged with the call site awaiting it.
Api(site, method, path, body, ctx, owner) ==
    [site |-> site, method |-> method, path |-> "/api" \o path, body |-> body,
     ctx |-> ctx, owner |-> owner]

Issue(bag, reqs) == bag (+) reqs
Settle(bag, r) == bag (-) SetToBag({r})
One(r) == SetToBag({r})

\* Fetch r is in flight and the continuation of call site `site` awaits it.
Awaited(r, site) == r.site = site /\ BagIn(r, pending)

InFlight(site) == {r \in BagToSet(pending) : r.site = site}

-----------------------------------------------------------------------------
(* Page load *)

refreshMetrics == Api("refreshMetrics", "GET", "/metrics", NoBody, "", 0)
refreshTasks == Api("refreshTasks", "GET", "/tasks", NoBody, "", 0)
refreshViz == Api("refreshViz", "GET", "/visualization/packet", NoBody, "", 0)
refreshHopfionField ==
    Api("refreshHopfionField", "GET", "/visualization/hopfion-field", NoBody, "", 0)

\* The three fetches the script starts when it is loaded.
PageLoadRequests == One(refreshMetrics) (+) One(refreshTasks) (+) One(refreshViz)

\* The state once the script has run to its end: the three refreshes are in
\* flight and the status reads 'Ready'.
Init ==
    /\ statusEl = "Ready"
    /\ metricsEl = ""
    /\ taskListEl = ""
    /\ vizPacketEl = ""
    /\ taskJsonEl = ""
    /\ llmResponseEl = ""
    /\ researchResultEl = ""
    /\ eqgftResponseEl = ""
    /\ physicsEl = ""
    /\ pending = PageLoadRequests
    /\ timers = <<>>
    /\ userActions = 0

-----------------------------------------------------------------------------
(* The refresh functions' continuations *)

\* updatePhysicsConstants(data.metrics): the four constants, formatted.
updatePhysicsConstants(d) == "constants(" \o d \o ")"

RefreshMetricsFulfilled(r, d) ==
    /\ Awaited(r, "refreshMetrics")
    /\ pending' = Settle(pending, r)
    /\ metricsEl' = Pretty(d)
    /\ physicsEl' = updatePhysicsConstants(d)
    /\ UNCHANGED <<statusEl, taskListEl, vizPacketEl, taskJsonEl, llmResponseEl,
                   researchResultEl, eqgftResponseEl, timers, userActions>>

\* A catch block that retries the request.
RefreshMetricsRejectedRetries(r, m) ==
    /\ Awaited(r, "refreshMetrics")
    /\ pending' = Issue(Settle(pending, r), One(refreshMetrics))
    /\ metricsEl' = "Error: " \o m
    /\ UNCHANGED <<statusEl, taskListEl, vizPacketEl, taskJsonEl, llmResponseEl,
                   researchResultEl, eqgftResponseEl, physicsEl, timers, userActions>>

RefreshMetricsRejected(r, m) ==
    /\ Awaited(r, "refreshMetrics")
    /\ pending' = Settle(pending, r)
    /\ metricsEl' = "Error: " \o m
    /\ UNCHANGED <<statusEl, taskListEl, vizPacketEl, taskJsonEl, llmResponseEl,
                   researchResultEl, eqgftResponseEl, physicsEl, timers, userActions>>

\* One table row per task of the response.
TaskRows(d) == "rows(" \o d \o ")"

RefreshTasksFulfilled(r, d) ==
    /\ Awaited(r, "refreshTasks")
    /\ pending' = Settle(pending, r)
    /\ taskListEl' = TaskRows(d)
    /\ UNCHANGED <<statusEl, metricsEl, vizPacketEl, taskJsonEl, llmResponseEl,
                   researchResultEl, eqgftResponseEl, physicsEl, timers, userActions>>

RefreshTasksRejected(r, m) ==
    /\ Awaited(r, "refreshTasks")
    /\ pending' = Settle(pending, r)
    /\ taskListEl' = "<tr><td colspan=\"2\">" \o m \o "</td></tr>"
    /\ UNCHANGED <<statusEl, metricsEl, vizPacketEl, taskJsonEl, llmResponseEl,
                   researchResultEl, eqgftResponseEl, physicsEl, timers, userActions>>

RefreshVizFulfilled(r, d) ==
    /\ Awaited(r, "refreshViz")
    /\ pending' = Settle(pending, r)
    /\ vizPacketEl' = Pretty(d)
    /\ UNCHANGED <<statusEl, metricsEl, taskListEl, taskJsonEl, llmResponseEl,
                   researchResultEl, eqgftResponseEl, physicsEl, timers, userActions>>

RefreshVizRejected(r, m) ==
    /\ Awaited(r, "refreshViz")
    /\ pending' = Settle(pending, r)
    /\ vizPacketEl' = "Error: " \o m
    /\ UNCHANGED <<statusEl, metricsEl, taskListEl, taskJsonEl, llmResponseEl,
                   researchResultEl, eqgftResponseEl, physicsEl, timers, userActions>>

\* Plotly.newPlot('eqgft-response', cones of data.q_x)
ConePlot(d) == "plot(" \o d \o ")"

RefreshHopfionFieldFulfilled(r, d) ==
    /\ Awaited(r, "refreshHopfionField")
    /\ pending' = Settle(pending, r)
    /\ eqgftResponseEl' = ConePlot(d)
    /\ UNCHANGED <<statusEl, metricsEl, taskListEl, vizPacketEl, taskJsonEl,
                   llmResponseEl, researchResultEl, physicsEl, timers, userActions>>

RefreshHopfionFieldRejected(r, m) ==
    /\ Awaited(r, "refreshHopfionField")
    /\ pending' = Settle(pending, r)
    /\ eqgftResponseEl' = "Error: " \o m
    /\ UNCHANGED <<statusEl, metricsEl, taskListEl, vizPacketEl, taskJsonEl,
                   llmResponseEl, researchResultEl, physicsEl, timers, userActions>>

-----------------------------------------------------------------------------
(* Submit task *)

\* The user replaces the text of #task-json.
EditTaskJson(t) ==
    /\ taskJsonEl # t
    /\ taskJsonEl' = t
    /\ UNCHANGED <<statusEl, metricsEl, taskListEl, vizPacketEl, llmResponseEl,
                   researchResultEl, eqgftResponseEl, physicsEl, pending, timers,
                   userActions>>

\* A handler that sends the text without parsing it.
ClickSubmitTaskUnparsed(execute) ==
    /\ userActions' = userActions + 1
    /\ pending' = Issue(pending, One(Api("submitTask", "POST", "/tasks",
                          [kind |-> "submit", task |-> taskJsonEl, execute |-> execute],
                          "", 0)))
    /\ UNCHANGED <<statusEl, metricsEl, taskListEl, vizPacketEl, taskJsonEl,
                   llmResponseEl, researchResultEl, eqgftResponseEl, physicsEl, timers>>

\* Click on #submit-task, up to the await: JSON.parse throws into the catch
\* before api() is called.
ClickSubmitTask(execute) ==
    /\ userActions' = userActions + 1
    /\ IF JsonParses(taskJsonEl)
       THEN /\ pending' = Issue(pending, One(Api("submitTask", "POST", "/tasks",
                              [kind |-> "submit", task |-> JsonParse(taskJsonEl),
                               execute |-> execute], "", 0)))
            /\ UNCHANGED statusEl
       ELSE /\ statusEl' = "Task error: " \o SyntaxErrorMessage
            /\ UNCHANGED pending
    /\ UNCHANGED <<metricsEl, taskListEl, vizPacketEl, taskJsonEl, llmResponseEl,
                   researchResultEl, eqgftResponseEl, physicsEl, timers>>

SubmitTaskFulfilled(r, d) ==
    /\ Awaited(r, "submitTask")
    /\ statusEl' = "Task submitted."
    /\ pending' = Issue(Settle(pending, r), One(refreshTasks) (+) One(refreshMetrics))
    /\ UNCHANGED <<metricsEl, taskListEl, vizPacketEl, taskJsonEl, llmResponseEl,
                   researchResultEl, eqgftResponseEl, physicsEl, timers, userActions>>

SubmitTaskRejected(r, m) ==
    /\ Awaited(r, "submitTask")
    /\ pending' = Settle(pending, r)
    /\ statusEl' = "Task error: " \o m
    /\ UNCHANGED <<metricsEl, taskListEl, vizPacketEl, taskJsonEl, llmResponseEl,
                   researchResultEl, eqgftResponseEl, physicsEl, timers, userActions>>

-----------------------------------------------------------------------------
(* Research campaign *)

OrDefault(s, dflt) == IF Trim(s) = "" THEN dflt ELSE Trim(s)

\* parseFloat(value || '0') || 0
TargetValue(s) ==
    LET n == ParseFloat(IF s = "" THEN "0" ELSE s)
    IN  IF n \in {"NaN", "0"} THEN "0" ELSE n

\* parseInt(value || '5', 10) || 5
MaxSteps(s) ==
    LET n == ParseInt(IF s = "" THEN "5" ELSE s)
    IN  IF n \in {"NaN", "0"} THEN "5" ELSE n

CampaignBody(form, contextPayload) ==
    [kind |-> "campaign",
     goal |-> OrDefault(form.goal, "topological_winding = 9.0000"),
     optimization_target |-> OrDefault(form.target, "topological_winding"),
     target_value |-> TargetValue(form.value),
     max_steps |-> MaxSteps(form.steps),
     context |-> contextPayload]

\* Click on #start-research, up to the await: an unparsable non-blank context
\* returns before anything else is written or sent.  (The progress text ends
\* with an ellipsis character in the source, written here as three dots.)
ClickStartResearch(form, context) ==
    /\ userActions' = userActions + 1
    /\ IF Trim(context) # "" /\ ~JsonParses(context)
       THEN /\ researchResultEl' = "Invalid context JSON: " \o SyntaxErrorMessage
            /\ UNCHANGED pending
       ELSE /\ researchResultEl' = "Running research campaign..."
            /\ pending' = Issue(pending, One(Api("startResearch", "POST",
                              "/llm/research-campaign",
                              CampaignBody(form, IF Trim(context) # ""
                                                 THEN JsonParse(context) ELSE "{}"),
                              "", 0)))
    /\ UNCHANGED <<statusEl, metricsEl, taskListEl, vizPacketEl, taskJsonEl,
                   llmResponseEl, eqgftResponseEl, physicsEl, timers>>

StartResearchFulfilled(r, d) ==
    /\ Awaited(r, "startResearch")
    /\ researchResultEl' = Pretty(d)
    /\ statusEl' = "Research campaign completed."
    /\ pending' = Issue(Settle(pending, r), One(refreshMetrics))
    /\ UNCHANGED <<metricsEl, taskListEl, vizPacketEl, taskJsonEl, llmResponseEl,
                   eqgftResponseEl, physicsEl, timers, userActions>>

StartResearchRejected(r, m) ==
    /\ Awaited(r, "startResearch")
    /\ pending' = Settle(pending, r)
    /\ researchResultEl' = "Campaign error: " \o m
    /\ UNCHANGED <<statusEl, metricsEl, taskListEl, vizPacketEl, taskJsonEl,
                   llmResponseEl, eqgftResponseEl, physicsEl, timers, userActions>>

-----------------------------------------------------------------------------
(* Refresh button and LLM query *)

\* A refresh handler that calls refreshMetrics twice.
ClickRefreshMetricsTwice ==
    /\ userActions' = userActions + 1
    /\ pending' = Issue(pending, One(refreshMetrics) (+) One(refreshMetrics) (+) One(refreshViz))
    /\ UNCHANGED <<statusEl, metricsEl, taskListEl, vizPacketEl, taskJsonEl,
                   llmResponseEl, researchResultEl, eqgftResponseEl, physicsEl, timers>>

ClickRefreshMetrics ==
    /\ userActions' = userActions + 1
    /\ pending' = Issue(pending, One(refreshMetrics) (+) One(refreshViz))
    /\ UNCHANGED <<statusEl, metricsEl, taskListEl, vizPacketEl, taskJsonEl,
                   llmResponseEl, researchResultEl, eqgftResponseEl, physicsEl, timers>>

ClickLlmQuery(q) ==
    /\ userActions' = userActions + 1
    /\ pending' = Issue(pending, One(Api("llmQuery", "POST", "/llm/query",
                                         [kind |-> "query", query |-> q], "", 0)))
    /\ UNCHANGED <<statusEl, metricsEl, taskListEl, vizPacketEl, taskJsonEl,
                   llmResponseEl, researchResultEl, eqgftResponseEl, physicsEl, timers>>

LlmQueryFulfilled(r, d) ==
    /\ Awaited(r, "llmQuery")
    /\ pending' = Settle(pending, r)
    /\ llmResponseEl' = Pretty(d)
    /\ taskJsonEl' = Pretty(d)
    /\ statusEl' = "LLM responded with task blueprint."
    /\ UNCHANGED <<metricsEl, taskListEl, vizPacketEl, researchResultEl,
                   eqgftResponseEl, physicsEl, timers, userActions>>

LlmQueryRejected(r, m) ==
    /\ Awaited(r, "llmQuery")
    /\ pending' = Settle(pending, r)
    /\ llmResponseEl' = m
    /\ UNCHANGED <<statusEl, metricsEl, taskListEl, vizPacketEl, taskJsonEl,
                   researchResultEl, eqgftResponseEl, physicsEl, timers, userActions>>

-----------------------------------------------------------------------------
(* EQGFT run *)

\* A builder whose first two branches are swapped.
BuildEqgftTaskSwapped(vizType, form) ==
    IF vizType = "line-plot"
    THEN [task_name |-> "Custom Python Script",
          geometric_operator |-> "CustomPythonScript",
          parameters |-> {<<"script", form.pythonScript>>}]
    ELSE IF vizType = "custom-python-script"
    THEN [task_name |-> "Simulate EQGFT Asymmetry",
          geometric_operator |-> "SimulateEqgftAsymmetry",
          parameters |-> {<<"kappa", JsonNumber(ParseFloat(form.kappa))>>,
                          <<"n_events", JsonNumber(ParseInt(form.nEvents))>>,
                          <<"systematic_error",
                            JsonNumber(ParseFloat(form.systematicError))>>}]
    ELSE [task_name |-> "Generate Hopfion Field",
          geometric_operator |-> "GenerateHopfionField",
          parameters |-> {}]

\* The task object the #eqgft-run handler builds; parameters is the set of
\* the object's key/value pairs as JSON.stringify writes them.
BuildEqgftTask(vizType, form) ==
    IF vizType = "custom-python-script"
    THEN [task_name |-> "Custom Python Script",
          geometric_operator |-> "CustomPythonScript",
          parameters |-> {<<"script", form.pythonScript>>}]
    ELSE IF vizType = "line-plot"
    THEN [task_name |-> "Simulate EQGFT Asymmetry",
          geometric_operator |-> "SimulateEqgftAsymmetry",
          parameters |-> {<<"kappa", JsonNumber(ParseFloat(form.kappa))>>,
                          <<"n_events", JsonNumber(ParseInt(form.nEvents))>>,
                          <<"systematic_error",
                            JsonNumber(ParseFloat(form.systematicError))>>}]
    ELSE [task_name |-> "Generate Hopfion Field",
          geometric_operator |-> "GenerateHopfionField",
          parameters |-> {}]

ClickEqgftRun(vizType, form) ==
    /\ userActions' = userActions + 1
    /\ pending' = Issue(pending, One(Api("eqgftRun", "POST", "/tasks",
                          [kind |-> "task", task |-> BuildEqgftTask(vizType, form),
                           execute |-> TRUE], vizType, 0)))
    /\ UNCHANGED <<statusEl, metricsEl, taskListEl, vizPacketEl, taskJsonEl,
                   llmResponseEl, researchResultEl, eqgftResponseEl, physicsEl, timers>>

EqgftRunFulfilled(r, d) ==
    /\ Awaited(r, "eqgftRun")
    /\ statusEl' = "EQGFT task submitted."
    /\ pending' = Issue(Settle(pending, r),
                        One(refreshTasks) (+) One(refreshMetrics) (+)
                        (IF r.ctx = "3d-vector-field"
                         THEN One(refreshHopfionField) ELSE EmptyBag))
    /\ UNCHANGED <<metricsEl, taskListEl, vizPacketEl, taskJsonEl, llmResponseEl,
                   researchResultEl, eqgftResponseEl, physicsEl, timers, userActions>>

EqgftRunRejected(r, m) ==
    /\ Awaited(r, "eqgftRun")
    /\ pending' = Settle(pending, r)
    /\ statusEl' = "EQGFT task error: " \o m
    /\ UNCHANGED <<metricsEl, taskListEl, vizPacketEl, taskJsonEl, llmResponseEl,
                   researchResultEl, eqgftResponseEl, physicsEl, timers, userActions>>

-----------------------------------------------------------------------------
(* Send EQGFT LLM query: plan, submit, poll *)

\* The task_id field of the POST /api/tasks response.
TaskIdOf(d) == "task-" \o d

\* A setInterval called twice for one task.
SetIntervalTwice(ts, task_id) ==
    LET timer == [task_id |-> task_id, active |-> TRUE, ticks |-> 0,
                  completions |-> 0, rejections |-> 0]
    IN  Append(Append(ts, timer), timer)

\* setInterval(callback, 1000): a new active timer polling task_id.  ticks,
\* completions and rejections count what its callback has done so far.
SetInterval(ts, task_id) ==
    Append(ts, [task_id |-> task_id, active |-> TRUE, ticks |-> 0,
                completions |-> 0, rejections |-> 0])

\* A clearInterval that misses its timer.
ClearIntervalMissed(ts, t) == ts

\* clearInterval(poll)
ClearInterval(ts, t) == [ts EXCEPT ![t].active = FALSE]

ClickEqgftSendLlm(q) ==
    /\ userActions' = userActions + 1
    /\ pending' = Issue(pending, One(Api("eqgftSendLlm.plan", "POST",
                          "/llm/plan-eqgft-task", [kind |-> "query", query |-> q],
                          "", 0)))
    /\ UNCHANGED <<statusEl, metricsEl, taskListEl, vizPacketEl, taskJsonEl,
                   llmResponseEl, researchResultEl, eqgftResponseEl, physicsEl, timers>>

PlanFulfilled(r, d) ==
    /\ Awaited(r, "eqgftSendLlm.plan")
    /\ eqgftResponseEl' = Pretty(d)
    /\ statusEl' = "LLM responded with EQGFT task blueprint. Submitting task..."
    /\ pending' = Issue(Settle(pending, r), One(Api("eqgftSendLlm.tasks", "POST",
                          "/tasks", [kind |-> "plan", plan |-> d, execute |-> TRUE],
                          "", 0)))
    /\ UNCHANGED <<metricsEl, taskListEl, vizPacketEl, taskJsonEl, llmResponseEl,
                   researchResultEl, physicsEl, timers, userActions>>

PlanRejected(r, m) ==
    /\ Awaited(r, "eqgftSendLlm.plan")
    /\ pending' = Settle(pending, r)
    /\ eqgftResponseEl' = m
    /\ UNCHANGED <<statusEl, metricsEl, taskListEl, vizPacketEl, taskJsonEl,
                   llmResponseEl, researchResultEl, physicsEl, timers, userActions>>

TasksFulfilled(r, d) ==
    /\ Awaited(r, "eqgftSendLlm.tasks")
    /\ pending' = Settle(pending, r)
    /\ timers' = SetInterval(timers, TaskIdOf(d))
    /\ UNCHANGED <<statusEl, metricsEl, taskListEl, vizPacketEl, taskJsonEl,
                   llmResponseEl, researchResultEl, eqgftResponseEl, physicsEl,
                   userActions>>

\* A catch block placed so that the timer is started all the same.
TasksRejectedStillPolls(r, m) ==
    /\ Awaited(r, "eqgftSendLlm.tasks")
    /\ pending' = Settle(pending, r)
    /\ eqgftResponseEl' = m
    /\ timers' = SetInterval(timers, "undefined")
    /\ UNCHANGED <<statusEl, metricsEl, taskListEl, vizPacketEl, taskJsonEl,
                   llmResponseEl, researchResultEl, physicsEl, userActions>>

TasksRejected(r, m) ==
    /\ Awaited(r, "eqgftSendLlm.tasks")
    /\ pending' = Settle(pending, r)
    /\ eqgftResponseEl' = m
    /\ UNCHANGED <<statusEl, metricsEl, taskListEl, vizPacketEl, taskJsonEl,
                   llmResponseEl, researchResultEl, physicsEl, timers, userActions>>

\* One firing of timer t: the callback runs up to its await, starting a poll.
TimerTick(t) ==
    /\ t \in 1..Len(timers)
    /\ timers[t].active
    /\ timers' = [timers EXCEPT ![t].ticks = @ + 1]
    /\ pending' = Issue(pending, One(Api("poll", "GET", "/tasks/" \o timers[t].task_id,
                                         NoBody, "", t)))
    /\ UNCHANGED <<statusEl, metricsEl, taskListEl, vizPacketEl, taskJsonEl,
                   llmResponseEl, researchResultEl, eqgftResponseEl, physicsEl,
                   userActions>>

\* The rest of the callback once its poll is fulfilled with status s.
PollFulfilled(r, s) ==
    /\ Awaited(r, "poll")
    /\ IF s = "Completed"
       THEN /\ timers' = [ClearInterval(timers, r.owner)
                             EXCEPT ![r.owner].completions = @ + 1]
            /\ statusEl' = "EQGFT task completed."
            /\ pending' = Issue(Settle(pending, r), One(refreshMetrics) (+) One(refreshViz))
       ELSE /\ pending' = Settle(pending, r)
            /\ UNCHANGED <<timers, statusEl>>
    /\ UNCHANGED <<metricsEl, taskListEl, vizPacketEl, taskJsonEl, llmResponseEl,
                   researchResultEl, eqgftResponseEl, physicsEl, userActions>>

\* A callback that gives up polling when a poll fails.
PollRejectedGivesUp(r, m) ==
    /\ Awaited(r, "poll")
    /\ pending' = Settle(pending, r)
    /\ timers' = [timers EXCEPT ![r.owner].rejections = @ + 1, ![r.owner].active = FALSE]
    /\ UNCHANGED <<statusEl, metricsEl, taskListEl, vizPacketEl, taskJsonEl,
                   llmResponseEl, researchResultEl, eqgftResponseEl, physicsEl,
                   userActions>>

\* The callback has no try/catch: a rejected poll rejects the promise the
\* async callback returned, which nothing handles.
PollRejected(r, m) ==
    /\ Awaited(r, "poll")
    /\ pending' = Settle(pending, r)
    /\ timers' = [timers EXCEPT ![r.owner].rejections = @ + 1]
    /\ UNCHANGED <<statusEl, metricsEl, taskListEl, vizPacketEl, taskJsonEl,
                   llmResponseEl, researchResultEl, eqgftResponseEl, physicsEl,
                   userActions>>

-----------------------------------------------------------------------------
(* The event loop *)

RECURSIVE TotalTicks(_)
TotalTicks(ts) == IF ts = <<>> THEN 0 ELSE Head(ts).ticks + TotalTicks(Tail(ts))

Click ==
    \/ \E execute \in BOOLEAN : ClickSubmitTask(execute)
    \/ \E form \in ResearchForms, context \in ContextTexts :
           ClickStartResearch(form, context)
    \/ ClickRefreshMetrics
    \/ \E q \in QueryTexts : ClickLlmQuery(q)
    \/ \E vizType \in VizTypes, form \in EqgftForms : ClickEqgftRun(vizType, form)
    \/ \E q \in QueryTexts : ClickEqgftSendLlm(q)

Fulfilled(r) ==
    \/ \E d \in Data : RefreshMetricsFulfilled(r, d)
    \/ \E d \in Data : RefreshTasksFulfilled(r, d)
    \/ \E d \in Data : RefreshVizFulfilled(r, d)
    \/ \E d \in Data : RefreshHopfionFieldFulfilled(r, d)
    \/ \E d \in Data : SubmitTaskFulfilled(r, d)
    \/ \E d \in Data : StartResearchFulfilled(r, d)
    \/ \E d \in Data : LlmQueryFulfilled(r, d)
    \/ \E d \in Data : EqgftRunFulfilled(r, d)
    \/ \E d \in Data : PlanFulfilled(r, d)
    \/ \E d \in Data : TasksFulfilled(r, d)
    \/ \E s \in TaskStatuses : PollFulfilled(r, s)

Rejected(r, m) ==
    \/ RefreshMetricsRejected(r, m)
    \/ RefreshTasksRejected(r, m)
    \/ RefreshVizRejected(r, m)
    \/ RefreshHopfionFieldRejected(r, m)
    \/ SubmitTaskRejected(r, m)
    \/ StartResearchRejected(r, m)
    \/ LlmQueryRejected(r, m)
    \/ EqgftRunRejected(r, m)
    \/ PlanRejected(r, m)
    \/ TasksRejected(r, m)
    \/ PollRejected(r, m)

Next ==
    \/ userActions < MaxUserActions /\ Click
    \/ \E t \in TaskTexts : EditTaskJson(t)
    \/ TotalTicks(timers) < MaxTicks /\ \E t \in 1..Len(timers) : TimerTick(t)
    \/ \E r \in BagToSet(pending) : Fulfilled(r)
    \/ \E r \in BagToSet(pending), m \in ErrorMessages : Rejected(r, m)

Spec == Init /\ [][Next]_vars

\* The same client when the user only uses the 'send EQGFT LLM query' button.
PollNext ==
    \/ userActions < MaxLlmClicks /\ \E q \in QueryTexts : ClickEqgftSendLlm(q)
    \/ TotalTicks(timers) < MaxTicks /\ \E t \in 1..Len(timers) : TimerTick(t)
    \/ \E r \in BagToSet(pending) : Fulfilled(r)
    \/ \E r \in BagToSet(pending), m \in ErrorMessages : Rejected(r, m)

PollSpec == Init /\ [][PollNext]_vars

-----------------------------------------------------------------------------
(* Vocabulary of the properties *)

Timers == 1..Len(timers)
ActiveTimers == {t \in Timers : timers[t].active}

\* The fetches a step starts.
NewRequests == pending' (-) pending

\* The fetches of the 'send EQGFT LLM query' flow that have not settled yet.
FlowRequests == InFlight("eqgftSendLlm.plan") \cup InFlight("eqgftSendLlm.tasks")

\* The elements the continuation awaiting a fetch writes when the fetch settles.
Writes(r) ==
    CASE r.site = "refreshMetrics" -> {"metrics", "physics"}
      [] r.site = "refreshTasks" -> {"task-list"}
      [] r.site = "refreshViz" -> {"viz-packet"}
      [] r.site = "refreshHopfionField" -> {"eqgft-response"}
      [] r.site = "submitTask" -> {"status"}
      [] r.site = "startResearch" -> {"research-result", "status"}
      [] r.site = "llmQuery" -> {"llm-response", "task-json", "status"}
      [] r.site = "eqgftRun" -> {"status"}
      [] r.site = "eqgftSendLlm.plan" -> {"eqgft-response", "status"}
      [] r.site = "eqgftSendLlm.tasks" -> {"eqgft-response"}
      [] r.site = "poll" -> {"status"}

\* No two fetches of the bag have continuations that write a common element.
WriteDisjoint(bag) ==
    \A r1, r2 \in BagToSet(bag) :
        (r1 # r2 \/ CopiesIn(r1, bag) > 1) => Writes(r1) \cap Writes(r2) = {}

-----------------------------------------------------------------------------
(* C1 *)

\* C1: once a poll response with status 'Completed' has been processed, the
\* timer is cancelled and the status reads 'EQGFT task completed.'; a
\* cancelled timer stays cancelled and never ticks again, so it starts no
\* further poll.
C1_PollStopsOnCompleted ==
    /\ [](\A t \in Timers : timers[t].completions > 0 => ~timers[t].active)
    /\ [][\A t \in Timers :
            /\ timers'[t].completions > timers[t].completions =>
                   statusEl' = "EQGFT task completed."
            /\ ~timers[t].active =>
                   /\ ~timers'[t].active
                   /\ timers'[t].ticks = timers[t].ticks
                   /\ \A r \in BagToSet(NewRequests) : ~(r.site = "poll" /\ r.owner = t)
         ]_vars

\* A timer cancelled by a completed poll while the tick budget is not used up.
C1_Witness ==
    \E t \in Timers :
        /\ timers[t].completions > 0
        /\ ~timers[t].active
        /\ TotalTicks(timers) < MaxTicks

(* C2 *)

\* C2: every rejected request is caught at its call site: no rejection of a
\* poll (or of any other request) is left unhandled.
C2_EveryRejectionCaught == \A t \in Timers : timers[t].rejections = 0

(* C3 *)

\* C3: a timer is cancelled only by a 'Completed' poll response: whatever else
\* its polls return, and however many of them fail, it stays active and its
\* next tick can fire.
C3_PollsUntilCompleted ==
    \A t \in Timers :
        /\ timers[t].completions = 0 => timers[t].active
        /\ timers[t].active => ENABLED TimerTick(t)

\* A timer still active after one poll failed and another returned 'Running'.
C3_Witness ==
    \E t \in Timers :
        /\ timers[t].active
        /\ timers[t].ticks >= 2
        /\ timers[t].rejections >= 1
        /\ InFlight("poll") = {}

(* C4 *)

\* C4 as stated: at most one polling timer is active in every reachable state.
C4_SingleActiveTimer == Cardinality(ActiveTimers) <= 1

\* C4 amended: every click on the button starts at most one timer: the timers
\* created so far and the clicks whose requests are still in flight never
\* outnumber the clicks.
C4_OneTimerPerClick ==
    Len(timers) + BagCardinality([r \in FlowRequests |-> CopiesIn(r, pending)])
        <= userActions

\* Two timers of two clicks active at once.
C4_Witness == Cardinality(ActiveTimers) >= 2

(* C5 *)

\* C5 as stated: no two operations in flight write the same element.
C5_NothingShared == WriteDisjoint(pending)

\* C5 amended: the operations one handler run starts (the page load, a click,
\* a tick, one continuation) write pairwise different elements.
C5_DisjointPerHandler == WriteDisjoint(PageLoadRequests) /\ [][WriteDisjoint(NewRequests)]_vars

\* The three refreshes an EQGFT run of a 3d-vector-field started, all in flight.
C5_Witness ==
    /\ statusEl = "EQGFT task submitted."
    /\ InFlight("refreshHopfionField") # {}
    /\ InFlight("refreshTasks") # {}
    /\ InFlight("refreshMetrics") # {}

(* C6 *)

\* The operator and the parameter names each visualization type stands for.
ExpectedOperator(vizType) ==
    CASE vizType = "custom-python-script" -> "CustomPythonScript"
      [] vizType = "line-plot" -> "SimulateEqgftAsymmetry"
      [] OTHER -> "GenerateHopfionField"

ExpectedParameters(vizType) ==
    CASE vizType = "custom-python-script" -> {"script"}
      [] vizType = "line-plot" -> {"kappa", "n_events", "systematic_error"}
      [] OTHER -> {}

\* C6: a click on the EQGFT run button starts exactly one request, a POST
\* /api/tasks with execute = true whose task has the operator and the
\* parameter names of the selected visualization type.
C6_RunBuildsOneOfThree ==
    [][\A vizType \in VizTypes, form \in EqgftForms :
          ClickEqgftRun(vizType, form) =>
              /\ BagCardinality(NewRequests) = 1
              /\ \A r \in BagToSet(NewRequests) :
                    /\ r.method = "POST"
                    /\ r.path = "/api/tasks"
                    /\ r.body.execute = TRUE
                    /\ r.body.task.geometric_operator = ExpectedOperator(vizType)
                    /\ {p[1] : p \in r.body.task.parameters} = ExpectedParameters(vizType)
      ]_vars

\* A line-plot task and nothing else of the run handler in flight.
C6_Witness ==
    \E r \in InFlight("eqgftRun") :
        /\ r.ctx = "line-plot"
        /\ r.body.task.geometric_operator = "SimulateEqgftAsymmetry"
        /\ <<"n_events", "100">> \in r.body.task.parameters

(* C7 *)

\* C7 as stated: once a request has failed, no further request for the same
\* operation is started without a click: a timer one of whose polls failed
\* starts no further poll.
C7_NoRequestAfterFailure ==
    [][\A t \in Timers :
          timers[t].rejections > 0 =>
              \A r \in BagToSet(NewRequests) : ~(r.site = "poll" /\ r.owner = t)
      ]_vars

\* C7 amended: no catch block retries: the step that handles a rejected
\* request starts no request at all.
C7_NoRetryOnFailure ==
    [][\A r \in BagToSet(pending), m \in ErrorMessages :
          Rejected(r, m) => pending' = pending (-) One(r)
      ]_vars

\* A failed refreshMetrics, shown and not sent again.
C7_Witness ==
    /\ metricsEl = "Error: Bad Gateway"
    /\ InFlight("refreshMetrics") = {}

(* C8 *)

\* C8: a timer handles completion at most once.
C8_CompletionHandledOnce == \A t \in Timers : timers[t].completions <= 1

(* C9 *)

\* C9: POST /api/tasks is sent only by the step that handles a fulfilled plan
\* request, a timer is started only by the step that handles a fulfilled POST
\* /api/tasks, and a rejected plan or submit request writes its message to
\* the EQGFT response element, sends nothing and starts no timer.
C9_FlowInOrder ==
    [][/\ (\E r \in BagToSet(NewRequests) : r.site = "eqgftSendLlm.tasks") =>
              \E r \in InFlight("eqgftSendLlm.plan"), d \in Data : PlanFulfilled(r, d)
       /\ Len(timers') # Len(timers) =>
              \E r \in InFlight("eqgftSendLlm.tasks"), d \in Data :
                  /\ TasksFulfilled(r, d)
                  /\ Len(timers') = Len(timers) + 1
       /\ \A r \in FlowRequests, m \in ErrorMessages :
              PlanRejected(r, m) \/ TasksRejected(r, m) =>
                  /\ eqgftResponseEl' = m
                  /\ pending' = pending (-) One(r)
                  /\ timers' = timers
      ]_vars

\* A flow whose plan succeeded and whose submit failed: no timer, the message shown.
C9_Witness ==
    /\ statusEl = "LLM responded with EQGFT task blueprint. Submitting task..."
    /\ eqgftResponseEl = "Bad Gateway"
    /\ FlowRequests = {}
    /\ timers = <<>>

(* C10 *)

====
